---- MODULE Spec2Model ----
(***************************************************************************)
(* Package acquisition and installation pipeline of wpmm:                  *)
(*   Package.install / downloadPackage / execDownload / cloneRepo          *)
(*   (src/src/Package.ts), downloadFile / extractZip / renameFolder        *)
(*   (src/unnamed/part_001, second half) and installNpmPackages /          *)
(*   installComposer (src/unnamed/part_001, first half).                   *)
(*                                                                         *)
(* A JavaScript string is a sequence of atoms.  An atom is one character   *)
(* or a run of characters that holds no separator ("/" in a path, "." in   *)
(* a URL); the separators are atoms of their own, so that split and join   *)
(* are computed, not assumed.                                              *)
(***************************************************************************)
EXTENDS Integers, Sequences, FiniteSets, TLC

VARIABLES
    pc,             \* position of the one running install() ("idle": none)
    calls,          \* number of install() calls made by the driver so far
    pkg,            \* this.pkgInfo + this.packageType of the running call
    url,            \* url argument of the innermost downloadFile frame
    depth,          \* nesting of downloadFile frames (redirect hops), counted up to MaxDepth
    tempExists,     \* fs: tempDir exists
    zips,           \* fs: tempDir/<name>.zip, per package name
    staged,         \* fs: top-level names extracted into tempDir
    dest,           \* fs: destFolder/<name>, per destination folder and name
    procs,          \* subprocesses started with exec() and still running: << call, command, cwd >>
    entryIdx,       \* extractZip: number of entries handed to onEntry
    commonRootPath, \* extractZip: the local of that name
    extractedPath,  \* downloadPackage: the local of that name
    ops,            \* history: operations performed by the running call
    err,            \* history: the error that reached downloadPackage's catch
    fetched,        \* history: how the caller's downloadFile promise settled
    lastCode,       \* history: status code of the response that rejected this fetch
    hadFile,        \* history: targetFile existed when execDownload called downloadFile
    result,         \* history: how the promise of install() settled
    prev            \* history: the previous call, as it returned

vars == << pc, calls, pkg, url, depth, tempExists, zips, staged, dest, procs,
           entryIdx, commonRootPath, extractedPath, ops, err, fetched, lastCode,
           hadFile, result, prev >>

fsVars == << tempExists, zips, staged, dest >>
zipVars == << entryIdx, commonRootPath >>

----------------------------------------------------------------------------
(* Bounds of the model *)

MaxCalls == 2       \* install() calls in one run
MaxDepth == 2       \* depth counts redirect hops up to here, then stays
MaxEntries == 3     \* entries of an archive in the extractor's own specification
MaxInstalls == 2    \* install() calls in flight at once in the concurrent specification

----------------------------------------------------------------------------
(* JavaScript strings and arrays *)

Min(S) == CHOOSE x \in S : \A y \in S : x <= y

\* arr[i] of an index past the end
Undefined == << "undefined" >>

RECURSIVE SplitAcc(_, _, _, _)
SplitAcc(s, sep, done, cur) ==
    IF s = << >> THEN Append(done, cur)
    ELSE IF Head(s) = sep
         THEN SplitAcc(Tail(s), sep, Append(done, cur), << >>)
         ELSE SplitAcc(Tail(s), sep, done, Append(cur, Head(s)))

\* String.prototype.split(sep): "" splits into [""]
Split(s, sep) == SplitAcc(s, sep, << >>, << >>)

\* Array.prototype.join(sep): [] joins into ""
RECURSIVE Join(_, _)
Join(arr, sep) ==
    IF arr = << >> THEN << >>
    ELSE IF Len(arr) = 1 THEN arr[1]
    ELSE arr[1] \o << sep >> \o Join(Tail(arr), sep)

\* arr[i], 0-based
At(arr, i) == IF i < Len(arr) THEN arr[i + 1] ELSE Undefined

\* arr.slice(0, n)
Slice0(arr, n) == SubSeq(arr, 1, IF n < Len(arr) THEN n ELSE Len(arr))

\* arr.pop() of a non-empty array
Pop(arr) == arr[Len(arr)]

----------------------------------------------------------------------------
(* extractZip's onEntry callback: the new value of commonRootPath.  The    *)
(* loop stops at the first index where the candidate and the entry differ. *)

OnEntryWholeFirst(root, fileName) ==
    LET parts == Split(fileName, "/")
        rootParts == Split(root, "/")
        div == { i \in 0 .. Len(parts) - 1 : At(rootParts, i) # parts[i + 1] }
    IN  IF root = << >> THEN fileName
        ELSE IF div = {} THEN root
        ELSE Join(Slice0(rootParts, Min(div)), "/")

OnEntry(root, fileName) ==
    LET parts == Split(fileName, "/")
        rootParts == Split(root, "/")
        div == { i \in 0 .. Len(parts) - 1 : At(rootParts, i) # parts[i + 1] }
    IN  IF root = << >> THEN parts[1]
        ELSE IF div = {} THEN root
        ELSE Join(Slice0(rootParts, Min(div)), "/")

----------------------------------------------------------------------------
(* Inputs *)

\* source URLs of the descriptors
UrlA == << "https://h/a", ".", "zip" >>
UrlB == << "https://h/b", ".", "zip" >>
UrlRepo == << "https://h/r", ".", "git" >>
UrlGitZip == << "https://h/r", ".", "git", ".", "zip" >>
UrlNoDot == << "https://h/", "git" >>

Packages ==
    { [name |-> "p", kind |-> "plugin", source |-> UrlA],
      [name |-> "p", kind |-> "theme", source |-> UrlB],
      [name |-> "q", kind |-> "plugin", source |-> UrlRepo],
      [name |-> "q", kind |-> "theme", source |-> UrlGitZip],
      [name |-> "q", kind |-> "core", source |-> UrlNoDot] }

Names == { d.name : d \in Packages }

\* Location headers a server answers with
Locations == { UrlB }
NoLocation == << >>

\* status codes a server answers with
Codes == { 200, 300, 301, 399, 400, 404 }

\* archives a server answers with, as the entries' file names in order
ArchPlain == << << "foo", "/" >>, << "foo", "/", "index.php" >> >>
ArchNpm == << << "foo", "/", "package.json" >>, << "foo", "/", "package-lock.json" >> >>
ArchTwoRoots == << << "a", "/", "x" >>, << "b", "/", "y" >> >>
ArchTwoRootsMore == << << "a", "/", "x" >>, << "b", "/", "y" >>, << "b", "/", "z" >> >>
Archives == { ArchPlain, ArchNpm, ArchTwoRoots, ArchTwoRootsMore }

\* a response body: the archive, and whether the unpacker can read it
Bodies == [arch : Archives, ok : {TRUE}] \cup { [arch |-> << >>, ok |-> FALSE] }

\* manifest files a cloned repository holds
Repos == { {}, { "package.json" }, { "composer.json" }, { "package.json", "composer.json" } }

\* entry names of the extractor's own specification
Segs == { "a", "b" }
EntryNames ==
    { << s >> : s \in Segs } \cup { << s, "/" >> : s \in Segs }
    \cup { << s, "/", t >> : s \in Segs, t \in Segs }
    \cup { << s, "/", t, "/", u >> : s \in Segs, t \in Segs, u \in Segs }

RECURSIVE SeqsUpTo(_, _)
SeqsUpTo(S, n) ==
    IF n = 0 THEN { << >> }
    ELSE LET shorter == SeqsUpTo(S, n - 1)
         IN shorter \cup { Append(q, e) : q \in shorter, e \in S }

----------------------------------------------------------------------------
(* The filesystem *)

NoFile == [kind |-> "none"]
NoDir == [how |-> "none"]

\* Package.getDestFolder
getDestFolder(packageType) ==
    IF packageType = "plugin" THEN "pluginsFolder"
    ELSE IF packageType = "theme" THEN "themeFolder"
    ELSE "baseFolder"

Folders == { "pluginsFolder", "themeFolder", "baseFolder" }

\* path.join(this.destFolder, this.pkgInfo.name)
pkgFolder(d) == << getDestFolder(d.kind), d.name >>

\* fs.existsSync(pkgFolder) in downloadPackage
DestExistsUnchecked(d) == FALSE

DestExists(d) == dest[pkgFolder(d)] # NoDir

\* fs.existsSync(targetFile) in downloadFile, targetFile = path.join(tempDir, name + ".zip")
ZipExistsUnchecked(name) == FALSE

ZipExists(name) == tempExists /\ zips[name] # NoFile

\* fs.existsSync(path.join(dir, file)) for dir = pkgFolder
HasFile(d, file) ==
    LET c == dest[pkgFolder(d)]
    IN  CASE c.how = "clone" -> file \in c.files
          [] c.how = "rename" ->
                \E i \in 1 .. Len(c.file.arch) :
                    Split(c.file.arch[i], "/") = << c.root, << file >> >>
          [] c.how = "tempdir" -> << file >> \in DOMAIN c.staged
          [] OTHER -> FALSE

\* packageUrl.split('.').pop() === 'git'
IsGitAnywhere(packageUrl) ==
    \E i \in 1 .. Len(Split(packageUrl, ".")) : Split(packageUrl, ".")[i] = << "git" >>

IsGit(packageUrl) == Pop(Split(packageUrl, ".")) = << "git" >>

\* code >= 400
IsError(code) == code >= 400

\* code > 300 && code < 400 && !!response.headers.location
IsRedirect(code, location) == code > 300 /\ code < 400 /\ location # NoLocation

FS == << tempExists, zips, staged, dest >>

----------------------------------------------------------------------------
(* Initial state: nothing installed, an empty tempDir *)

NoCall == [name |-> "", kind |-> "", source |-> << >>]

Init ==
    /\ pc = "idle"
    /\ calls = 0
    /\ pkg = NoCall
    /\ url = << >>
    /\ depth = 0
    /\ tempExists = TRUE
    /\ zips = [n \in Names |-> NoFile]
    /\ staged = << >>
    /\ dest = [k \in Folders \X Names |-> NoDir]
    /\ procs = {}
    /\ entryIdx = 0
    /\ commonRootPath = << >>
    /\ extractedPath = << >>
    /\ ops = {}
    /\ err = "none"
    /\ fetched = "none"
    /\ lastCode = 0
    /\ hadFile = FALSE
    /\ result = "none"
    /\ prev = [pkg |-> NoCall, placed |-> FALSE, fs |-> << >>, ops |-> {}, fetched |-> "none"]

----------------------------------------------------------------------------
(* Package.install -> downloadPackage, up to the first await *)

Did(op) == ops' = ops \cup { op }

\* the call starts: the history of the previous call is dropped
Fresh(d) ==
    /\ pkg' = d
    /\ calls' = calls + 1
    /\ depth' = 0
    /\ entryIdx' = 0
    /\ commonRootPath' = << >>
    /\ extractedPath' = << >>
    /\ err' = "none"
    /\ fetched' = "none"
    /\ lastCode' = 0

\* install(): packageUrl = source; downloadPackage: pkgFolder exists, return
InstallSkip(d) ==
    /\ pc = "idle" /\ calls < MaxCalls
    /\ DestExists(d)
    /\ Fresh(d)
    /\ url' = << >>
    /\ hadFile' = FALSE
    /\ ops' = {}
    /\ pc' = "done"
    /\ result' = "fulfilled"
    /\ UNCHANGED << fsVars, procs, prev >>

\* downloadPackage: the url is a repository, cloneRepo starts git clone
InstallClone(d) ==
    /\ pc = "idle" /\ calls < MaxCalls
    /\ ~DestExists(d)
    /\ IsGit(d.source)
    /\ Fresh(d)
    /\ url' = << >>
    /\ hadFile' = FALSE
    /\ ops' = { "clone" }
    /\ pc' = "cloning"
    /\ result' = "pending"
    /\ UNCHANGED << fsVars, procs, prev >>

\* downloadPackage: the url is an archive, execDownload calls downloadFile
InstallDownload(d) ==
    /\ pc = "idle" /\ calls < MaxCalls
    /\ ~DestExists(d)
    /\ ~IsGit(d.source)
    /\ Fresh(d)
    /\ url' = d.source
    /\ hadFile' = (tempExists /\ zips[d.name] # NoFile)
    /\ ops' = { "fetch" }
    /\ pc' = "downloadFile"
    /\ result' = "pending"
    /\ UNCHANGED << fsVars, procs, prev >>

----------------------------------------------------------------------------
(* downloadFile(url, targetFile) *)

\* a frame's promise rejects.  The outermost frame is awaited by execDownload
\* inside downloadPackage's try.  An inner frame is awaited in the async
\* response callback of the frame around it, whose promise nobody holds: the
\* rejection is unhandled and the frames around it are never settled.  Node
\* then either ends the process or goes on with the promise pending.
Rejects(kind) ==
    IF depth = 0
    THEN /\ err' = kind
         /\ fetched' = "rejected"
         /\ pc' = "catch"
    ELSE /\ err' = err
         /\ fetched' = "orphaned"
         /\ pc' \in { "hung", "crashed" }

\* targetFile exists: return; every frame around this one resolves with it
DownloadSkip ==
    /\ pc = "downloadFile"
    /\ ZipExists(pkg.name)
    /\ fetched' = (IF depth = 0 THEN "skipped" ELSE "resolved")
    /\ pc' = "extract"
    /\ UNCHANGED << calls, pkg, url, depth, fsVars, procs, zipVars, extractedPath,
                    ops, err, lastCode, hadFile, result, prev >>

\* https.get(url, ...)
DownloadRequest ==
    /\ pc = "downloadFile"
    /\ ~ZipExists(pkg.name)
    /\ Did("request")
    /\ pc' = "request"
    /\ UNCHANGED << calls, pkg, url, depth, fsVars, procs, zipVars, extractedPath,
                    err, fetched, lastCode, hadFile, result, prev >>

\* the request's "error" event
RequestError ==
    /\ pc = "request"
    /\ Rejects("transport")
    /\ UNCHANGED << calls, pkg, url, depth, fsVars, procs, zipVars, extractedPath,
                    ops, lastCode, hadFile, result, prev >>

\* a response with code >= 400
ResponseError(code) ==
    /\ pc = "request"
    /\ IsError(code)
    /\ lastCode' = code
    /\ Rejects("transport")
    /\ UNCHANGED << calls, pkg, url, depth, fsVars, procs, zipVars, extractedPath,
                    ops, hadFile, result, prev >>

\* a redirect: resolve(await downloadFile(response.headers.location, targetFile))
ResponseRedirect(code, location) ==
    /\ pc = "request"
    /\ ~IsError(code)
    /\ IsRedirect(code, location)
    /\ url' = location
    /\ depth' = (IF depth < MaxDepth THEN depth + 1 ELSE depth)
    /\ pc' = "downloadFile"
    /\ UNCHANGED << calls, pkg, fsVars, procs, zipVars, extractedPath,
                    ops, err, fetched, lastCode, hadFile, result, prev >>

\* any other response: fs.createWriteStream(targetFile), response.pipe(fileWriter).
\* Without tempDir the stream's "error" event has no listener.
ResponseBody(code, location, body) ==
    /\ pc = "request"
    /\ ~IsError(code)
    /\ ~IsRedirect(code, location)
    /\ IF tempExists
       THEN /\ zips' = [zips EXCEPT ![pkg.name] =
                            [kind |-> "zip", req |-> pkg.source, src |-> url, arch |-> body.arch,
                             ok |-> body.ok,
                             redirect |-> (code >= 300 /\ location # NoLocation)]]
            /\ Did("write")
            /\ pc' = "writing"
       ELSE /\ zips' = zips
            /\ ops' = ops
            /\ pc' = "crashed"
    /\ UNCHANGED << calls, pkg, url, depth, tempExists, staged, dest, procs, zipVars,
                    extractedPath, err, fetched, lastCode, hadFile, result, prev >>

\* the write stream's "finish" event: resolve(void 0), through every frame
WriteFinish ==
    /\ pc = "writing"
    /\ fetched' = "resolved"
    /\ pc' = "extract"
    /\ UNCHANGED << calls, pkg, url, depth, fsVars, procs, zipVars, extractedPath,
                    ops, err, lastCode, hadFile, result, prev >>

----------------------------------------------------------------------------
(* execDownload -> extractZip(zipFilePath, this.tempDir) *)

\* the unpacker cannot read the archive: extractZip rejects
ExtractFail ==
    /\ pc = "extract"
    /\ ~zips[pkg.name].ok
    /\ Did("extract")
    /\ err' = "extraction"
    /\ pc' = "catch"
    /\ UNCHANGED << calls, pkg, url, depth, fsVars, procs, zipVars, extractedPath,
                    fetched, lastCode, hadFile, result, prev >>

\* one entry is unpacked into tempDir and handed to onEntry
ExtractEntry ==
    /\ pc = "extract"
    /\ zips[pkg.name].ok
    /\ entryIdx < Len(zips[pkg.name].arch)
    /\ LET fileName == zips[pkg.name].arch[entryIdx + 1]
       IN /\ staged' = (Split(fileName, "/")[1] :> zips[pkg.name]) @@ staged
          /\ commonRootPath' = OnEntry(commonRootPath, fileName)
    /\ entryIdx' = entryIdx + 1
    /\ Did("extract")
    /\ UNCHANGED << pc, calls, pkg, url, depth, tempExists, zips, dest, procs,
                    extractedPath, err, fetched, lastCode, hadFile, result, prev >>

\* await extract(zipFilePath, { dir, onEntry }): the promise resolves after the
\* last entry
ExtractResolvesEarly == TRUE

ExtractResolves == entryIdx = Len(zips[pkg.name].arch)

\* every entry is unpacked: extractZip returns commonRootPath
ExtractDone ==
    /\ pc = "extract"
    /\ zips[pkg.name].ok
    /\ ExtractResolves
    /\ extractedPath' = commonRootPath
    /\ Did("extract")
    /\ pc' = "place"
    /\ UNCHANGED << calls, pkg, url, depth, fsVars, procs, zipVars,
                    err, fetched, lastCode, hadFile, result, prev >>

----------------------------------------------------------------------------
(* renameFolder(path.join(this.tempDir, extractedPath), pkgFolder) *)

\* path.join(tempDir, "") is tempDir
SourceExists ==
    IF extractedPath = << >> THEN tempExists ELSE extractedPath \in DOMAIN staged

\* fs.renameSync succeeds
PlaceOk ==
    /\ pc = "place"
    /\ SourceExists
    /\ dest[pkgFolder(pkg)] = NoDir
    /\ IF extractedPath = << >>
       THEN /\ dest' = [dest EXCEPT ![pkgFolder(pkg)] =
                            [how |-> "tempdir", zips |-> zips, staged |-> staged]]
            /\ tempExists' = FALSE
            /\ zips' = [n \in Names |-> NoFile]
            /\ staged' = << >>
       ELSE /\ dest' = [dest EXCEPT ![pkgFolder(pkg)] =
                            [how |-> "rename", file |-> staged[extractedPath],
                             root |-> extractedPath]]
            /\ staged' = [t \in DOMAIN staged \ { extractedPath } |-> staged[t]]
            /\ UNCHANGED << tempExists, zips >>
    /\ Did("rename")
    /\ pc' = "postinstall"
    /\ UNCHANGED << calls, pkg, url, depth, procs, zipVars, extractedPath,
                    err, fetched, lastCode, hadFile, result, prev >>

\* fs.renameSync throws: no source, or the filesystem refuses
PlaceFail ==
    /\ pc = "place"
    /\ Did("rename")
    /\ err' = "placement"
    /\ pc' = "catch"
    /\ UNCHANGED << calls, pkg, url, depth, fsVars, procs, zipVars, extractedPath,
                    fetched, lastCode, hadFile, result, prev >>

----------------------------------------------------------------------------
(* cloneRepo: exec("git clone <url> <destFolder>/<name>") *)

CloneOk(files) ==
    /\ pc = "cloning"
    /\ dest' = [dest EXCEPT ![pkgFolder(pkg)] =
                    [how |-> "clone", src |-> pkg.source, files |-> files]]
    /\ pc' = "postinstall"
    /\ UNCHANGED << calls, pkg, url, depth, tempExists, zips, staged, procs, zipVars,
                    extractedPath, ops, err, fetched, lastCode, hadFile, result, prev >>

CloneFail ==
    /\ pc = "cloning"
    /\ err' = "clone"
    /\ pc' = "catch"
    /\ UNCHANGED << calls, pkg, url, depth, fsVars, procs, zipVars, extractedPath,
                    ops, fetched, lastCode, hadFile, result, prev >>

----------------------------------------------------------------------------
(* if (packageUrl) { await installNpmPackages(pkgFolder); installComposer(pkgFolder) } *)

\* no package.json: installNpmPackages returns
NpmSkip ==
    /\ pc = "postinstall"
    /\ pkg.source # << >>
    /\ ~HasFile(pkg, "package.json")
    /\ pc' = "composer"
    /\ UNCHANGED << calls, pkg, url, depth, fsVars, procs, zipVars, extractedPath,
                    ops, err, fetched, lastCode, hadFile, result, prev >>

\* let command = "npm i && npm run build"; with a lockfile, "npm ci && npm run build"
NpmCommandNoLock(d) == "npm i && npm run build"

NpmCommand(d) ==
    IF HasFile(d, "package-lock.json")
    THEN "npm ci && npm run build" ELSE "npm i && npm run build"

NpmCommands == { "npm ci && npm run build", "npm i && npm run build" }

\* the subprocess installNpmPackages started in this call and awaits
NpmProcs == { p \in procs : p[1] = calls /\ p[2] \in NpmCommands }

\* exec(command, { cwd: packageDirectory })
NpmStart ==
    /\ pc = "postinstall"
    /\ pkg.source # << >>
    /\ HasFile(pkg, "package.json")
    /\ Did(NpmCommand(pkg))
    /\ procs' = procs \cup { << calls, NpmCommand(pkg), pkgFolder(pkg) >> }
    /\ pc' = "npm"
    /\ UNCHANGED << calls, pkg, url, depth, fsVars, zipVars, extractedPath,
                    err, fetched, lastCode, hadFile, result, prev >>

\* the command exits with 0
NpmOk ==
    /\ pc = "npm"
    /\ procs' = procs \ NpmProcs
    /\ pc' = "composer"
    /\ UNCHANGED << calls, pkg, url, depth, fsVars, zipVars, extractedPath,
                    ops, err, fetched, lastCode, hadFile, result, prev >>

\* the command fails: installNpmPackages rejects
NpmFail ==
    /\ pc = "npm"
    /\ procs' = procs \ NpmProcs
    /\ err' = "build"
    /\ pc' = "catch"
    /\ UNCHANGED << calls, pkg, url, depth, fsVars, zipVars, extractedPath,
                    ops, fetched, lastCode, hadFile, result, prev >>

\* installComposer: two exec() calls, neither awaited; downloadPackage and
\* install then return
InstallComposer ==
    /\ pc = "composer"
    /\ procs' = procs \cup { << calls, "composer install --no-dev", pkgFolder(pkg) >>,
                             << calls, "composer dumpautoload -o", pkgFolder(pkg) >> }
    /\ Did("composer")
    /\ pc' = "done"
    /\ result' = "fulfilled"
    /\ UNCHANGED << calls, pkg, url, depth, fsVars, zipVars, extractedPath,
                    err, fetched, lastCode, hadFile, prev >>

\* a subprocess nobody waits for exits
ProcExit(p) ==
    /\ p \in procs
    /\ p[2] \notin NpmCommands
    /\ procs' = procs \ { p }
    /\ UNCHANGED << pc, calls, pkg, url, depth, fsVars, zipVars, extractedPath,
                    ops, err, fetched, lastCode, hadFile, result, prev >>

\* downloadPackage's catch: console.error; install() then returns
Catch ==
    /\ pc = "catch"
    /\ pc' = "done"
    /\ result' = "fulfilled"
    /\ UNCHANGED << calls, pkg, url, depth, fsVars, procs, zipVars, extractedPath,
                    ops, err, fetched, lastCode, hadFile, prev >>

\* the driver has the settled promise of install() and goes on
Return ==
    /\ pc = "done"
    /\ prev' = [pkg |-> pkg, placed |-> dest[pkgFolder(pkg)] # NoDir, fs |-> FS,
                 ops |-> ops, fetched |-> fetched]
    /\ pc' = "idle"
    /\ UNCHANGED << calls, pkg, url, depth, fsVars, procs, zipVars, extractedPath,
                    ops, err, fetched, lastCode, hadFile, result >>

----------------------------------------------------------------------------

Next ==
    \/ \E d \in Packages : InstallSkip(d)
    \/ \E d \in Packages : InstallClone(d)
    \/ \E d \in Packages : InstallDownload(d)
    \/ DownloadSkip
    \/ DownloadRequest
    \/ RequestError
    \/ \E code \in Codes : ResponseError(code)
    \/ \E code \in Codes, location \in Locations : ResponseRedirect(code, location)
    \/ \E code \in Codes, location \in Locations \cup { NoLocation }, body \in Bodies :
            ResponseBody(code, location, body)
    \/ WriteFinish
    \/ ExtractFail
    \/ ExtractEntry
    \/ ExtractDone
    \/ PlaceOk
    \/ PlaceFail
    \/ \E files \in Repos : CloneOk(files)
    \/ CloneFail
    \/ NpmSkip
    \/ NpmStart
    \/ NpmOk
    \/ NpmFail
    \/ InstallComposer
    \/ \E p \in procs : ProcExit(p)
    \/ Catch
    \/ Return

Spec == Init /\ [][Next]_vars

\* the event loop runs a handler whenever one is ready
FairSpec == Spec /\ WF_vars(Next)

----------------------------------------------------------------------------
(* The extractor alone: any archive of up to MaxEntries entries is in      *)
(* tempDir, downloaded, and execDownload is about to call extractZip.      *)

ExtractPkg == [name |-> "p", kind |-> "plugin", source |-> UrlA]

InitExtract ==
    /\ pc = "extract"
    /\ calls = 1
    /\ pkg = ExtractPkg
    /\ url = UrlA
    /\ depth = 0
    /\ tempExists = TRUE
    /\ \E a \in SeqsUpTo(EntryNames, MaxEntries) :
            zips = [n \in Names |->
                        IF n = ExtractPkg.name
                        THEN [kind |-> "zip", req |-> UrlA, src |-> UrlA, arch |-> a, ok |-> TRUE,
                              redirect |-> FALSE]
                        ELSE NoFile]
    /\ staged = << >>
    /\ dest = [k \in Folders \X Names |-> NoDir]
    /\ procs = {}
    /\ entryIdx = 0
    /\ commonRootPath = << >>
    /\ extractedPath = << >>
    /\ ops = { "fetch", "request", "write" }
    /\ err = "none"
    /\ fetched = "resolved"
    /\ lastCode = 0
    /\ hadFile = FALSE
    /\ result = "pending"
    /\ prev = [pkg |-> NoCall, placed |-> FALSE, fs |-> << >>, ops |-> {}, fetched |-> "none"]

NextExtract == ExtractEntry \/ ExtractDone

SpecExtract == InitExtract /\ [][NextExtract]_vars

----------------------------------------------------------------------------
(* Two install() calls in flight on one tempDir, as a driver that starts   *)
(* the installs of a run without awaiting each one would have them.  The   *)
(* variables of a call (pc, pkg, entryIdx, commonRootPath, extractedPath,   *)
(* ops, err, fetched) hold one value per call here; the filesystem is the   *)
(* shared one.  A step is what one call runs between two awaits.  The       *)
(* servers answer without redirects.                                        *)

Installs == 1 .. MaxInstalls

ConcCodes == { 200, 404 }

ConcFixed == << url, depth, procs, lastCode, hadFile, result, prev >>

InitConc ==
    /\ pc = [i \in Installs |-> "idle"]
    /\ calls = 0
    /\ pkg = [i \in Installs |-> NoCall]
    /\ url = << >>
    /\ depth = 0
    /\ tempExists = TRUE
    /\ zips = [n \in Names |-> NoFile]
    /\ staged = << >>
    /\ dest = [k \in Folders \X Names |-> NoDir]
    /\ procs = {}
    /\ entryIdx = [i \in Installs |-> 0]
    /\ commonRootPath = [i \in Installs |-> << >>]
    /\ extractedPath = [i \in Installs |-> << >>]
    /\ ops = [i \in Installs |-> {}]
    /\ err = [i \in Installs |-> "none"]
    /\ fetched = [i \in Installs |-> "none"]
    /\ lastCode = 0
    /\ hadFile = FALSE
    /\ result = "none"
    /\ prev = [pkg |-> NoCall, placed |-> FALSE, fs |-> << >>, ops |-> {}, fetched |-> "none"]

\* call i moves on
Goes(i, to) == pc' = [pc EXCEPT ![i] = to]
DidIn(i, op) == ops' = [ops EXCEPT ![i] = @ \cup { op }]
FailsIn(i, kind) == err' = [err EXCEPT ![i] = kind] /\ Goes(i, "done")

\* downloadFile up to its first await: targetFile exists, or https.get
ConcDownloadFile(i, name) ==
    IF ZipExists(name)
    THEN /\ fetched' = [fetched EXCEPT ![i] = "skipped"]
         /\ Goes(i, "extract")
         /\ ops' = [ops EXCEPT ![i] = { "fetch" }]
    ELSE /\ fetched' = fetched
         /\ Goes(i, "request")
         /\ ops' = [ops EXCEPT ![i] = { "fetch", "request" }]

\* the driver calls install() of a package of the run: downloadPackage up to
\* its first await
ConcInstall(i, d) ==
    /\ pc[i] = "idle"
    /\ \A j \in Installs : pkg[j] # d
    /\ pkg' = [pkg EXCEPT ![i] = d]
    /\ calls' = calls + 1
    /\ IF DestExists(d)
       THEN Goes(i, "done") /\ UNCHANGED << ops, fetched >>
       ELSE IF IsGit(d.source)
            THEN Goes(i, "cloning") /\ DidIn(i, "clone") /\ fetched' = fetched
            ELSE ConcDownloadFile(i, d.name)
    /\ UNCHANGED << fsVars, zipVars, extractedPath, err, ConcFixed >>

\* the response of call i's request
ConcResponse(i, code, body) ==
    /\ pc[i] = "request"
    /\ IF IsError(code)
       THEN /\ FailsIn(i, "transport")
            /\ fetched' = [fetched EXCEPT ![i] = "rejected"]
            /\ UNCHANGED << zips, ops >>
       ELSE /\ IF tempExists
               THEN /\ zips' = [zips EXCEPT ![pkg[i].name] =
                                    [kind |-> "zip", req |-> pkg[i].source,
                                     src |-> pkg[i].source, arch |-> body.arch,
                                     ok |-> body.ok, redirect |-> FALSE]]
                    /\ DidIn(i, "write")
                    /\ Goes(i, "writing")
               ELSE /\ Goes(i, "crashed")
                    /\ UNCHANGED << zips, ops >>
            /\ UNCHANGED << err, fetched >>
    /\ UNCHANGED << calls, pkg, tempExists, staged, dest, zipVars, extractedPath,
                    ConcFixed >>

\* the write stream of call i finishes
ConcWriteFinish(i) ==
    /\ pc[i] = "writing"
    /\ fetched' = [fetched EXCEPT ![i] = "resolved"]
    /\ Goes(i, "extract")
    /\ UNCHANGED << calls, pkg, fsVars, zipVars, extractedPath, ops, err, ConcFixed >>

\* extractZip(tempDir/<name>.zip, tempDir) of call i: no file, or not an archive
ConcExtractFail(i) ==
    /\ pc[i] = "extract"
    /\ ~(ZipExists(pkg[i].name) /\ zips[pkg[i].name].ok)
    /\ DidIn(i, "extract")
    /\ FailsIn(i, "extraction")
    /\ UNCHANGED << calls, pkg, fsVars, zipVars, extractedPath, fetched, ConcFixed >>

\* one entry is unpacked into tempDir, over whatever is at its path
ConcExtractEntry(i) ==
    /\ pc[i] = "extract"
    /\ ZipExists(pkg[i].name) /\ zips[pkg[i].name].ok
    /\ entryIdx[i] < Len(zips[pkg[i].name].arch)
    /\ LET fileName == zips[pkg[i].name].arch[entryIdx[i] + 1]
       IN /\ staged' = (Split(fileName, "/")[1] :> zips[pkg[i].name]) @@ staged
          /\ commonRootPath' =
                [commonRootPath EXCEPT ![i] = OnEntry(commonRootPath[i], fileName)]
    /\ entryIdx' = [entryIdx EXCEPT ![i] = @ + 1]
    /\ DidIn(i, "extract")
    /\ UNCHANGED << pc, calls, pkg, tempExists, zips, dest, extractedPath, err,
                    fetched, ConcFixed >>

\* extractZip returns to call i
ConcExtractDone(i) ==
    /\ pc[i] = "extract"
    /\ ZipExists(pkg[i].name) /\ zips[pkg[i].name].ok
    /\ entryIdx[i] >= Len(zips[pkg[i].name].arch)
    /\ extractedPath' = [extractedPath EXCEPT ![i] = commonRootPath[i]]
    /\ Goes(i, "place")
    /\ UNCHANGED << calls, pkg, fsVars, zipVars, ops, err, fetched, ConcFixed >>

\* renameFolder(tempDir/<extractedPath>, pkgFolder) of call i succeeds
ConcPlaceOk(i) ==
    /\ pc[i] = "place"
    /\ IF extractedPath[i] = << >> THEN tempExists
                                   ELSE extractedPath[i] \in DOMAIN staged
    /\ dest[pkgFolder(pkg[i])] = NoDir
    /\ IF extractedPath[i] = << >>
       THEN /\ dest' = [dest EXCEPT ![pkgFolder(pkg[i])] =
                            [how |-> "tempdir", zips |-> zips, staged |-> staged]]
            /\ tempExists' = FALSE
            /\ zips' = [n \in Names |-> NoFile]
            /\ staged' = << >>
       ELSE /\ dest' = [dest EXCEPT ![pkgFolder(pkg[i])] =
                            [how |-> "rename", file |-> staged[extractedPath[i]],
                             root |-> extractedPath[i]]]
            /\ staged' = [t \in DOMAIN staged \ { extractedPath[i] } |-> staged[t]]
            /\ UNCHANGED << tempExists, zips >>
    /\ DidIn(i, "rename")
    /\ Goes(i, "postinstall")
    /\ UNCHANGED << calls, pkg, zipVars, extractedPath, err, fetched, ConcFixed >>

\* fs.renameSync throws: no source, or the filesystem refuses
ConcPlaceFail(i) ==
    /\ pc[i] = "place"
    /\ DidIn(i, "rename")
    /\ FailsIn(i, "placement")
    /\ UNCHANGED << calls, pkg, fsVars, zipVars, extractedPath, fetched, ConcFixed >>

\* git clone of call i ends
ConcClone(i, files, ok) ==
    /\ pc[i] = "cloning"
    /\ IF ok
       THEN /\ dest' = [dest EXCEPT ![pkgFolder(pkg[i])] =
                            [how |-> "clone", src |-> pkg[i].source, files |-> files]]
            /\ Goes(i, "postinstall")
            /\ err' = err
       ELSE /\ dest' = dest
            /\ FailsIn(i, "clone")
    /\ UNCHANGED << calls, pkg, tempExists, zips, staged, zipVars, extractedPath,
                    ops, fetched, ConcFixed >>

\* installNpmPackages and installComposer of call i: they work in pkgFolder,
\* as in the sequential specification, and leave tempDir alone
ConcPostInstall(i) ==
    /\ pc[i] = "postinstall"
    /\ DidIn(i, "build")
    /\ Goes(i, "done")
    /\ UNCHANGED << calls, pkg, fsVars, zipVars, extractedPath, err, fetched, ConcFixed >>

NextConc ==
    \/ \E i \in Installs, d \in Packages : ConcInstall(i, d)
    \/ \E i \in Installs, code \in ConcCodes, body \in Bodies : ConcResponse(i, code, body)
    \/ \E i \in Installs : ConcWriteFinish(i)
    \/ \E i \in Installs : ConcExtractFail(i)
    \/ \E i \in Installs : ConcExtractEntry(i)
    \/ \E i \in Installs : ConcExtractDone(i)
    \/ \E i \in Installs : ConcPlaceOk(i)
    \/ \E i \in Installs : ConcPlaceFail(i)
    \/ \E i \in Installs, files \in Repos, ok \in BOOLEAN : ConcClone(i, files, ok)
    \/ \E i \in Installs : ConcPostInstall(i)

SpecConc == InitConc /\ [][NextConc]_vars

----------------------------------------------------------------------------
(* Properties *)

\* the archive extractZip is reading, and the value it returned
TheArchive == zips[pkg.name].arch
Returned == pc = "place"

\* the entry's path begins with "<top>/"
BeginsWith(fileName, top) ==
    Len(fileName) >= 2 /\ fileName[1] = top /\ fileName[2] = "/"

\* the two calls the driver made last are for the same descriptor
SameDescriptor == calls >= 2 /\ prev.pkg = pkg

\* C1 as stated: a second install() of the same descriptor performs no clone,
\* no extraction, no rename and no write, and leaves destination tree and
\* tempDir as the first call left them.
C1_SecondCallDoesNothing ==
    (pc = "done" /\ SameDescriptor) =>
        /\ ops \cap { "clone", "extract", "rename", "write" } = {}
        /\ FS = prev.fs

\* C1 amended: when the first call left destinationFolder/name in place, a
\* second install() of the same descriptor performs no operation at all and
\* leaves destination tree and tempDir as the first call left them.
C1_SecondCallAfterPlacedDoesNothing ==
    (pc = "done" /\ SameDescriptor /\ prev.placed) =>
        /\ ops = {}
        /\ FS = prev.fs

C1_Witness == pc = "done" /\ SameDescriptor /\ prev.placed /\ prev.ops # {}

\* both calls reached downloadFile, with the same url and targetFile
SameFetch ==
    /\ calls >= 2 /\ pc # "idle"
    /\ "fetch" \in ops /\ "fetch" \in prev.ops
    /\ prev.pkg.source = pkg.source /\ prev.pkg.name = pkg.name

\* C2 as stated: a second downloadFile(url, targetFile) with the same
\* arguments issues no HTTP request and returns success.
C2_SecondFetchNoRequest ==
    (SameFetch /\ pc # "downloadFile") =>
        "request" \notin ops /\ fetched = "skipped"

\* C2 amended: downloadFile called while targetFile exists issues no HTTP
\* request, writes nothing and returns success; so does a second call with
\* the same arguments after a first call that returned success.
C2_FetchOfExistingFileNoRequest ==
    /\ ("fetch" \in ops /\ hadFile /\ pc # "downloadFile") =>
            ops \cap { "request", "write" } = {} /\ fetched = "skipped"
    /\ (SameFetch /\ prev.fetched \in { "resolved", "skipped" } /\ pc # "downloadFile") =>
            ops \cap { "request", "write" } = {} /\ fetched = "skipped"

C2_Witness ==
    SameFetch /\ prev.fetched = "resolved" /\ hadFile /\ pc = "extract"

\* C3: when every entry of a non-empty archive begins with the same top-level
\* directory, extractZip returns exactly that directory's name.
C3_SingleRootReturned ==
    \A top \in Segs :
        ( /\ Returned
          /\ Len(TheArchive) >= 1
          /\ \A i \in 1 .. Len(TheArchive) : BeginsWith(TheArchive[i], top) )
        => extractedPath = << top >>

C3_Witness ==
    /\ Returned
    /\ Len(TheArchive) = MaxEntries
    /\ \A i \in 1 .. Len(TheArchive) : BeginsWith(TheArchive[i], "a")
    /\ \E i, j \in 1 .. Len(TheArchive) : Len(TheArchive[i]) < Len(TheArchive[j])
    /\ extractedPath = << "a" >>

\* C4: when the entries of an archive do not all have the same first path
\* segment, extractZip returns the empty string.
C4_NoSharedTopReturnsEmpty ==
    ( /\ Returned
      /\ \E i, j \in 1 .. Len(TheArchive) :
            Split(TheArchive[i], "/")[1] # Split(TheArchive[j], "/")[1] )
    => extractedPath = << >>

\* C5: with an empty common root the Place step fails: nothing is renamed,
\* nothing appears at destinationFolder/name and tempDir stays where it is.
C5_EmptyRootPlacementFails ==
    ("rename" \in ops /\ extractedPath = << >> /\ pc \in { "postinstall", "catch" }) =>
        /\ err = "placement"
        /\ dest[pkgFolder(pkg)] = NoDir
        /\ tempExists

\* C6: when a fetch, an unpack, a clone or a rename failed during install(),
\* the promise of install() does not settle as it does on success.
C6_FailureIsReported ==
    (pc = "done" /\ err \in { "transport", "extraction", "placement", "clone" }) =>
        result # "fulfilled"

\* C7: what downloadFile writes to targetFile is never the body of a response
\* with a status in [300,400) and a Location header.
C7_RedirectBodyNeverWritten ==
    (pc \in { "writing", "extract" } /\ "write" \in ops) => ~zips[pkg.name].redirect

\* C8: when the last response of a redirect chain has a status >= 400, the
\* promise of the downloadFile call made by execDownload rejects.
C8_ErrorStatusRejectsCaller ==
    lastCode >= 400 => fetched = "rejected"

\* C9: downloadFile does not follow redirects for ever: a fetch that has
\* started comes to an end.
FetchRunning == pc \in { "downloadFile", "request", "writing" }
C9_FetchTerminates == [](FetchRunning => <>(~FetchRunning))

\* the url ends in ".git"
EndsInGit(u) == Len(u) >= 2 /\ u[Len(u)] = "git" /\ u[Len(u) - 1] = "."

\* C10: for a source url ending in ".git" the call clones into
\* destinationFolder/name and never fetches, extracts or renames; for any
\* other url it never clones.
C10_GitSuffixDecidesPath ==
    pc # "idle" =>
        IF EndsInGit(pkg.source)
        THEN /\ ops \cap { "fetch", "request", "write", "extract", "rename" } = {}
             /\ pc \in { "postinstall", "npm", "composer" } =>
                    /\ dest[pkgFolder(pkg)].how = "clone"
                    /\ dest[pkgFolder(pkg)].src = pkg.source
        ELSE "clone" \notin ops

C10_Witness ==
    /\ pc = "postinstall" /\ calls = 2
    /\ EndsInGit(pkg.source) /\ "clone" \in ops
    /\ prev.placed /\ prev.pkg.source = UrlGitZip /\ "rename" \in prev.ops

----------------------------------------------------------------------------
(* Package.downloadPackage: the existence check and the steps after it *)

\* the filesystem as the running call found it
DestAtStart(d) == calls >= 2 /\ prev.fs[4][pkgFolder(d)] # NoDir

\* C11: when destinationFolder/name exists as install is called, the call
\* goes straight to Done: it fetches, clones, extracts, renames and builds
\* nothing, and the destinations and tempDir stay as they were.
C11_ExistingDestGoesToDone ==
    (pc # "idle" /\ DestAtStart(pkg)) =>
        /\ pc = "done"
        /\ ops = {}
        /\ err = "none"
        /\ FS = prev.fs
        /\ \A p \in procs : p[1] # calls

C11_Witness ==
    /\ pc = "done" /\ DestAtStart(pkg)
    /\ dest[pkgFolder(pkg)].how = "rename"
    /\ zips[pkg.name] # NoFile

\* C12: when a build subprocess exits non-zero, the package stays placed and
\* what install() hands back to the caller flags a build warning.
C12_BuildFailureIsAWarning ==
    (pc = "done" /\ err = "build") =>
        /\ dest[pkgFolder(pkg)] # NoDir
        /\ result = "warning"

\* C13: a build tool is started only when its own manifest is in the placed
\* directory; with no manifest no build subprocess is started at all.
C13_BuildToolsNeedTheirManifest ==
    pc # "idle" =>
        /\ ops \cap NpmCommands # {} => HasFile(pkg, "package.json")
        /\ "composer" \in ops => HasFile(pkg, "composer.json")

BuildSteps == NpmCommands \cup { "composer" }

\* C14: one installation runs its steps in order.  Nothing is done when the
\* destination existed; the archive is unpacked only after the fetch has
\* resolved (the write stream has finished, or the file was there); the rename
\* starts only after the last entry is unpacked and extractZip has returned;
\* a build tool is started only after the rename or the clone has put
\* destinationFolder/name in place.
C14_StepsInOrder ==
    pc # "idle" =>
        /\ ops # {} => ~DestAtStart(pkg)
        /\ pc = "writing" => "extract" \notin ops
        /\ "extract" \in ops => fetched \in { "resolved", "skipped" }
        /\ "rename" \in ops =>
                /\ "extract" \in ops
                /\ extractedPath = commonRootPath
                /\ ZipExists(pkg.name) => entryIdx = Len(zips[pkg.name].arch)
        /\ pc \in { "downloadFile", "request", "writing", "extract", "place", "cloning" } =>
                ops \cap BuildSteps = {}
        /\ ops \cap BuildSteps # {} =>
                /\ dest[pkgFolder(pkg)] # NoDir
                /\ ops \cap { "rename", "clone" } # {}
                /\ "rename" \in ops => dest[pkgFolder(pkg)].how \in { "rename", "tempdir" }

C14_Witness ==
    /\ pc = "done"
    /\ { "fetch", "request", "write", "extract", "rename", "composer",
         "npm ci && npm run build" } \subseteq ops

\* a fetch, unpack, clone or rename of the running call has failed
AcquireOrPlaceFailed ==
    \/ err \in { "transport", "extraction", "clone", "placement" }
    \/ fetched \in { "rejected", "orphaned" }

\* C15: an error in Acquire or Place aborts only that installation: no later
\* step of the package runs, and install() returns to the driver, which goes
\* on with the following packages.
C15_ErrorAbortsOnlyThatPackage ==
    (pc # "idle" /\ AcquireOrPlaceFailed) =>
        /\ pc \in { "catch", "done" }
        /\ ops \cap BuildSteps = {}
        /\ err # "placement" => "rename" \notin ops

\* C17: whenever composer.json is in the directory the call has placed, the
\* composer steps are run, whether the npm step was skipped, succeeded or failed.
C17_ComposerRunsWhateverNpmDid ==
    (pc = "done" /\ ops # {} /\ HasFile(pkg, "composer.json")) => "composer" \in ops

----------------------------------------------------------------------------
(* extractZip: the candidate after each entry *)

\* the path segments of the candidate; the empty candidate has none
RootSegments == IF commonRootPath = << >> THEN << >> ELSE Split(commonRootPath, "/")

\* the first n segments of the path are exactly segs
SegmentPrefix(segs, fileName) ==
    /\ Len(segs) <= Len(Split(fileName, "/"))
    /\ SubSeq(Split(fileName, "/"), 1, Len(segs)) = segs

\* the first n segments of the first entry begin every entry seen so far
SharedBySeen(n) ==
    /\ n <= Len(Split(TheArchive[1], "/"))
    /\ \A i \in 1 .. entryIdx :
            SegmentPrefix(SubSeq(Split(TheArchive[1], "/"), 1, n), TheArchive[i])

----------------------------------------------------------------------------
(* installNpmPackages *)

\* installNpmPackages(pkgFolder) has been called by the running call
NpmStepEntered == pc \in { "npm", "composer" } \/ "composer" \in ops \/ err = "build"

----------------------------------------------------------------------------
(* tempDir across the calls of one run *)

\* C20: in a sequential run on one tempDir, what a call places at a package's
\* destination was fetched for that package, from its own url: also when two
\* packages of different kinds have one name, and when an earlier failed
\* install left its archive in tempDir.
C20_PlacedContentIsOwn ==
    \A d \in Packages :
        dest[pkgFolder(d)].how = "rename" => dest[pkgFolder(d)].file.req = d.source

----------------------------------------------------------------------------
(* tempDir under installs in flight together *)

\* C16: with two installs of different packages in flight on one tempDir, the
\* archive a call unpacks is the one fetched for its own package, complete,
\* and the staging directory it is about to rename is there and holds what
\* that call unpacked.
C16_TempArtifactsPerPackage ==
    \A i \in Installs :
        /\ (pc[i] \in { "extract", "place" } /\ ZipExists(pkg[i].name)) =>
                /\ zips[pkg[i].name].req = pkg[i].source
                /\ \A j \in Installs \ { i } :
                        ~(pc[j] = "writing" /\ pkg[j].name = pkg[i].name)
        /\ (pc[i] = "place" /\ extractedPath[i] # << >>) =>
                /\ extractedPath[i] \in DOMAIN staged
                /\ staged[extractedPath[i]].req = pkg[i].source

----------------------------------------------------------------------------
(* installComposer: the subprocesses of a call that has returned *)

\* C21: when install() has returned, every subprocess it started has ended;
\* and "composer dumpautoload -o" is never running in a package directory
\* while "composer install --no-dev" is still running there.
C21_SubprocessesEndedAtReturn ==
    /\ pc \in { "done", "idle" } => procs = {}
    /\ \A p, q \in procs :
            ~( /\ p[2] = "composer install --no-dev"
               /\ q[2] = "composer dumpautoload -o"
               /\ p[3] = q[3] )

====
